---- MODULE Spec2Model ----
(***************************************************************************)
(* Model of native/llama_cpp/llama_wrapper.cpp: the LlamaHandle session    *)
(* state and the five wrapper_* entry points.  The llama.cpp engine is a   *)
(* black box; its results (model load, context creation, tokenization,     *)
(* sampler construction, sampled token id, decode status) are inputs       *)
(* chosen nondeterministically from small sets.                            *)
(*                                                                         *)
(* Floats (temp, top_p) are represented in tenths: 7 is 0.7, -10 is -1.0.  *)
(* A prompt is represented by its tokenization: a prompt of T tokens is    *)
(* the token sequence 1, 2, ..., T.                                        *)
(* The caller's pointer is "null" or "handle"; a use of the handle after   *)
(* wrapper_free is modelled for wrapper_free itself (double release).      *)
(* handle->batch is rewritten from entry 0 before every llama_decode, so   *)
(* the model keeps the batches handed to llama_decode by the most recent   *)
(* call (submitted) instead of the buffer's content between calls.         *)
(* delete handle ends the lifetime of the fields: wrapper_free leaves them *)
(* at the values of the state before wrapper_init.                         *)
(* A handler runs to completion as one step.  What holds inside a call is  *)
(* recorded in last: ready_during is the value of is_prepared while        *)
(* wrapper_prepare_prompt decodes its chunks, sampled_from the state of    *)
(* the logits buffer when wrapper_get_next_token sampled.                  *)
(***************************************************************************)
EXTENDS Integers, Sequences, FiniteSets, TLC

VARIABLES hstate, res, uaf, n_ctx, batch_size, smpl, n_cur,
          is_prepared, last_temp, last_top_p, n_prompt, n_gen,
          max_new_tokens, kv_len, logits, submitted, last

vars == <<hstate, res, uaf, n_ctx, batch_size, smpl, n_cur,
          is_prepared, last_temp, last_top_p, n_prompt, n_gen,
          max_new_tokens, kv_len, logits, submitted, last>>

\* the engine's sequence cache and logits buffer: kv_len is the number of
\* tokens the cache holds; logits is "none" when no batch has produced logits
\* since the cache was cleared, "fresh" when the most recent batch handed to
\* llama_decode produced them, "stale" when that batch failed and the buffer
\* still holds what an earlier batch produced
engine == <<kv_len, logits>>

session == <<n_cur, is_prepared, n_prompt, n_gen, max_new_tokens>>

sampler == <<smpl, last_temp, last_top_p>>

(***************************************************************************)
(* Program constants.                                                      *)
(***************************************************************************)
DefaultCtx == 1024

MaxBatch == 128

Safety == 128

MinNewTokens == 16

CtxReserve == 4

InitMaxNewTokens == 128

InitParam == -10

ErrNullHandle == -1

ErrNotPrepared == -2

ErrSampler == -3

ErrDecode == -4

(***************************************************************************)
(* Input sets.                                                             *)
(***************************************************************************)
MaxBufSize == 16

MaxCtx == 150

\* a context smaller than the safety margin, and one that leaves room for
\* prompts
CtxSizes == {100, MaxCtx}

\* prompt lengths: empty, short, and the two around MaxCtx - Safety
PromptLens == {0, 7, MaxCtx - Safety - 1, MaxCtx - Safety}

ExampleCtxSizes == {256}

\* the example's prompt and the shortest rejected one
ExamplePromptLens == {50, 128}

ChunkCtxSizes == {400}

\* two full chunks, two full chunks and one token, the shortest prompt a
\* context of 400 refuses, and a prompt that fills the context
ChunkPromptLens == {256, 257, 272, 400}

\* an ordinary token and an end-of-generation token
ChunkTokenIds == {2, 4}

Temps == {7, 10}

TopPs == {9, 10}

BufSizes == {3, MaxBufSize}

Min(a, b) == IF a < b THEN a ELSE b

Max(a, b) == IF a > b THEN a ELSE b

(***************************************************************************)
(* The vocabulary: the text of each token id and whether the vocabulary    *)
(* flags it as end-of-generation.  Texts are sequences of characters.      *)
(***************************************************************************)
Vocab ==
  << [text |-> <<>>, eog |-> FALSE],
     [text |-> <<"t","h","e">>, eog |-> FALSE],
     [text |-> <<"<","|","i","m","_","s","t","a","r","t","|",">">>, eog |-> FALSE],
     [text |-> <<"<","/","s",">">>, eog |-> TRUE],
     [text |-> <<"<","|","i","m","_","e","n","d","|",">">>, eog |-> TRUE],
     [text |-> <<"\n","u","s","e","r","\n">>, eog |-> FALSE] >>

TokenIds == 1..Len(Vocab)

ExampleTokenIds == {1, 2, 3, 4}

StopMarkers ==
  { <<"<","|","i","m","_","e","n","d","|">>,
    <<"<","|","i","m","_","s","t","a","r","t","|",">">>,
    <<"<","|","u","s","e","r","|",">">>,
    <<"u","s","e","r","\n">> }

\* strstr(hay, needle) != nullptr
strstr(hay, needle) ==
  \E i \in 1..(Len(hay) - Len(needle) + 1) :
     SubSeq(hay, i, i + Len(needle) - 1) = needle

\* llama_token_to_piece(vocab, id, buf, length, 0, true): the byte count when
\* the text fits in length bytes, else minus the size needed (nothing written)
llama_token_to_piece(id, length) ==
  IF Len(Vocab[id].text) <= length THEN Len(Vocab[id].text)
  ELSE 0 - Len(Vocab[id].text)

llama_vocab_is_eog(id) == Vocab[id].eog

StopSequence_NoImStart(out_buf) ==
  \E m \in StopMarkers \ {<<"<","|","i","m","_","s","t","a","r","t","|",">">>} :
     \E i \in 1..(Len(out_buf) - Len(m) + 1) :
        SubSeq(out_buf, i, i + Len(m) - 1) = m

\* the stop word check of wrapper_get_next_token on the decoded out_buf
StopSequence(out_buf) == \E m \in StopMarkers : strstr(out_buf, m)

\* llama_tokenize of a prompt of T tokens
Tokenize(T) == [k \in 1..T |-> k]

(***************************************************************************)
(* Resources and the record of the most recent call.                       *)
(***************************************************************************)
Resources == {"backend", "model", "ctx", "batch", "smpl", "handle"}

NoSampler == [built |-> FALSE, temp |-> InitParam, top_p |-> InitParam]

Release(s) == IF s = "live" THEN "released" ELSE "invalid"

NoCall ==
  [op |-> "none", h |-> "null", ok |-> FALSE, ret |-> 0, n_tokens |-> 0,
   temp |-> 0, top_p |-> 0, id |-> 0, out_buf_size |-> 0, path |-> "none",
   built |-> FALSE, reset |-> FALSE, ready_during |-> FALSE,
   sampled_from |-> "unsampled"]

\* the pointers a caller can pass: null, and the handle once wrapper_init
\* has returned one
Ptrs == IF hstate \in {"live", "freed"} THEN {"null", "handle"} ELSE {"null"}

(***************************************************************************)
(* The state before wrapper_init, with the field values of LlamaHandle().   *)
(* hstate: "none" before wrapper_init, "init_failed" after it returned     *)
(* null, "live" while the handle is allocated, "freed" after wrapper_free. *)
(***************************************************************************)
Init ==
  /\ hstate = "none"
  /\ res = [r \in Resources |-> "none"]
  /\ uaf = FALSE
  /\ n_ctx = 0
  /\ batch_size = MaxBatch
  /\ smpl = NoSampler
  /\ n_cur = 0
  /\ is_prepared = FALSE
  /\ last_temp = InitParam
  /\ last_top_p = InitParam
  /\ n_prompt = 0
  /\ n_gen = 0
  /\ max_new_tokens = InitMaxNewTokens
  /\ kv_len = 0
  /\ logits = "none"
  /\ submitted = <<>>
  /\ last = NoCall

(***************************************************************************)
(* wrapper_init                                                            *)
(***************************************************************************)
wrapper_init(ctx_size, load_ok, ctx_ok) ==
  LET requested_ctx == IF ctx_size > 0 THEN ctx_size ELSE DefaultCtx
      n_batch == Min(MaxBatch, requested_ctx)
  IN
  /\ hstate = "none"
  /\ submitted' = <<>>
  /\ UNCHANGED <<uaf, smpl, session, last_temp, last_top_p, engine>>
  /\ IF ~load_ok
       THEN /\ res' = [res EXCEPT !["backend"] = "live"]
            /\ last' = [NoCall EXCEPT !.op = "init", !.path = "model_load_failed"]
            /\ hstate' = "init_failed"
            /\ UNCHANGED <<n_ctx, batch_size>>
       ELSE IF ~ctx_ok
       THEN /\ res' = [res EXCEPT !["backend"] = "live", !["model"] = "released"]
            /\ last' = [NoCall EXCEPT !.op = "init", !.path = "ctx_init_failed"]
            /\ hstate' = "init_failed"
            /\ UNCHANGED <<n_ctx, batch_size>>
       ELSE /\ res' = [res EXCEPT !["backend"] = "live", !["model"] = "live",
                                  !["ctx"] = "live", !["batch"] = "live",
                                  !["handle"] = "live"]
            /\ hstate' = "live"
            /\ n_ctx' = requested_ctx
            /\ batch_size' = Min(MaxBatch, n_batch)
            /\ last' = [NoCall EXCEPT !.op = "init", !.h = "handle", !.ok = TRUE,
                                      !.path = "ok"]

(***************************************************************************)
(* wrapper_tokenize                                                        *)
(***************************************************************************)
wrapper_tokenize_AsPrepare(h, T) ==
  /\ h \in Ptrs
  /\ h = "handle" => hstate = "live"
  /\ submitted' = <<>>
  /\ last' = IF h = "null"
               THEN [NoCall EXCEPT !.op = "tokenize", !.ret = ErrNullHandle,
                                   !.path = "null_handle"]
               ELSE [NoCall EXCEPT !.op = "tokenize", !.h = h, !.ok = TRUE,
                                   !.ret = Len(Tokenize(T)), !.n_tokens = T,
                                   !.path = "ok"]
  /\ is_prepared' = (is_prepared /\ h = "null")
  /\ UNCHANGED <<hstate, res, uaf, n_ctx, batch_size, sampler, n_cur,
                 n_prompt, n_gen, max_new_tokens, engine>>

wrapper_tokenize(h, T) ==
  /\ h \in Ptrs
  /\ h = "handle" => hstate = "live"
  /\ submitted' = <<>>
  /\ last' = IF h = "null"
               THEN [NoCall EXCEPT !.op = "tokenize", !.ret = ErrNullHandle,
                                   !.path = "null_handle"]
               ELSE [NoCall EXCEPT !.op = "tokenize", !.h = h, !.ok = TRUE,
                                   !.ret = Len(Tokenize(T)), !.n_tokens = T,
                                   !.path = "ok"]
  /\ UNCHANGED <<hstate, res, uaf, n_ctx, batch_size, sampler, session,
                 engine>>

(***************************************************************************)
(* The guards and counter updates of wrapper_prepare_prompt and            *)
(* wrapper_get_next_token.                                                 *)
(***************************************************************************)
is_prepared_on_entry_Kept(was_prepared) == was_prepared

\* handle->is_prepared = false on entry of wrapper_prepare_prompt
is_prepared_on_entry(was_prepared) == FALSE

PromptTooLong_Never(n_tokens, ctx) == FALSE

PromptTooLong_OffByOne(n_tokens, ctx) == n_tokens > ctx - Safety

\* the prompt guard: n_tokens >= n_ctx - safety
PromptTooLong(n_tokens, ctx) == n_tokens >= ctx - Safety

GenerationLimit_NoMargin(ctx, prompt) == Max(MinNewTokens, ctx - prompt)

GenerationLimit_NoFloor(ctx, prompt) == ctx - prompt - Safety

\* max_new_tokens = std::max(16, n_ctx - n_prompt - safety)
GenerationLimit(ctx, prompt) == Max(MinNewTokens, ctx - prompt - Safety)

\* the context guard: n_cur >= n_ctx - 4
ContextFull(cur, ctx) == cur >= ctx - CtxReserve

LengthLimitReached_OffByOne(gen, limit) == gen > limit

\* the max new tokens check: n_gen >= max_new_tokens
LengthLimitReached(gen, limit) == gen >= limit

BatchPos_OffByOne(cur) == cur + 1

\* handle->batch.pos[0] = handle->n_cur
BatchPos(cur) == cur

\* handle->n_cur++
NextCur(cur) == cur + 1

NextGen_Forgotten(gen) == gen

\* handle->n_gen++
NextGen(gen) == gen + 1

(***************************************************************************)
(* ensure_sampler: the sampler fields after the call, whether the chain    *)
(* was constructed or only reset, and the result.  chain_ok is the result  *)
(* of llama_sampler_chain_init.                                            *)
(***************************************************************************)
ensure_sampler_TempOnly(temp, top_p, chain_ok) ==
  IF smpl.built /\ temp = last_temp
    THEN [ok |-> TRUE, smpl |-> smpl, last_temp |-> last_temp,
          last_top_p |-> last_top_p, built |-> FALSE, reset |-> TRUE]
    ELSE IF ~chain_ok
    THEN [ok |-> FALSE, smpl |-> NoSampler, last_temp |-> last_temp,
          last_top_p |-> last_top_p, built |-> TRUE, reset |-> FALSE]
    ELSE [ok |-> TRUE,
          smpl |-> [built |-> TRUE, temp |-> temp, top_p |-> top_p],
          last_temp |-> temp, last_top_p |-> top_p,
          built |-> TRUE, reset |-> FALSE]

ensure_sampler(temp, top_p, chain_ok) ==
  IF smpl.built /\ temp = last_temp /\ top_p = last_top_p
    THEN [ok |-> TRUE, smpl |-> smpl, last_temp |-> last_temp,
          last_top_p |-> last_top_p, built |-> FALSE, reset |-> TRUE]
    ELSE IF ~chain_ok
    THEN [ok |-> FALSE, smpl |-> NoSampler, last_temp |-> last_temp,
          last_top_p |-> last_top_p, built |-> TRUE, reset |-> FALSE]
    ELSE [ok |-> TRUE,
          smpl |-> [built |-> TRUE, temp |-> temp, top_p |-> top_p],
          last_temp |-> temp, last_top_p |-> top_p,
          built |-> TRUE, reset |-> FALSE]

(***************************************************************************)
(* wrapper_prepare_prompt                                                  *)
(***************************************************************************)
\* number of chunks the pre-fill loop submits for n_tokens tokens
NumChunks(n_tokens, bs) == (n_tokens + bs - 1) \div bs

\* the chunk loop, from offset i with cursor cur; fail_chunk is the number of
\* the chunk whose llama_decode fails (0: none fails)
RECURSIVE Prefill_PosRestart(_, _, _, _, _, _)
Prefill_PosRestart(i, cur, tokens, bs, fail_chunk, subm) ==
  IF i >= Len(tokens)
    THEN [ok |-> TRUE, n_cur |-> cur, submitted |-> subm]
    ELSE LET n_eval == IF Len(tokens) - i > bs THEN bs ELSE Len(tokens) - i
             b == [j \in 1..n_eval |->
                     [token |-> tokens[i + j], pos |-> j - 1,
                      seq_id |-> 0, logits |-> (j - 1 = n_eval - 1)]]
         IN IF Len(subm) + 1 = fail_chunk
              THEN [ok |-> FALSE, n_cur |-> cur, submitted |-> Append(subm, b)]
              ELSE Prefill_PosRestart(i + bs, cur + n_eval, tokens, bs,
                                      fail_chunk, Append(subm, b))

RECURSIVE Prefill(_, _, _, _, _, _)
Prefill(i, cur, tokens, bs, fail_chunk, subm) ==
  IF i >= Len(tokens)
    THEN [ok |-> TRUE, n_cur |-> cur, submitted |-> subm]
    ELSE LET n_eval == IF Len(tokens) - i > bs THEN bs ELSE Len(tokens) - i
             b == [j \in 1..n_eval |->
                     [token |-> tokens[i + j], pos |-> cur + (j - 1),
                      seq_id |-> 0, logits |-> (j - 1 = n_eval - 1)]]
         IN IF Len(subm) + 1 = fail_chunk
              THEN [ok |-> FALSE, n_cur |-> cur, submitted |-> Append(subm, b)]
              ELSE Prefill(i + bs, cur + n_eval, tokens, bs, fail_chunk,
                           Append(subm, b))

\* the logits buffer after the chunk loop on a cleared cache: every chunk ends
\* with a logit-emitting entry
LogitsAfterPrefill(r) ==
  IF r.ok THEN (IF r.submitted = <<>> THEN "none" ELSE "fresh")
  ELSE (IF Len(r.submitted) > 1 THEN "stale" ELSE "none")

wrapper_prepare_prompt(h, T, fail_chunk) ==
  /\ h \in Ptrs
  /\ h = "handle" => hstate = "live"
  /\ IF h = "null"
       THEN /\ last' = [NoCall EXCEPT !.op = "prepare", !.path = "null_handle"]
            /\ submitted' = <<>>
            /\ UNCHANGED <<session, engine, sampler>>
       ELSE LET tokens == Tokenize(T)
                n_tokens == Len(tokens)
            IN IF PromptTooLong(n_tokens, n_ctx)
                 THEN /\ is_prepared' = is_prepared_on_entry(is_prepared)
                      /\ kv_len' = 0
                      /\ logits' = "none"
                      /\ submitted' = <<>>
                      /\ last' = [NoCall EXCEPT !.op = "prepare", !.h = h,
                                    !.n_tokens = n_tokens,
                                    !.ready_during =
                                       is_prepared_on_entry(is_prepared),
                                    !.path = "prompt_too_long"]
                      /\ UNCHANGED <<n_cur, n_prompt, n_gen, max_new_tokens,
                                     sampler>>
                 ELSE LET r == Prefill(0, 0, tokens, batch_size, fail_chunk, <<>>)
                      IN /\ fail_chunk \in 0..NumChunks(n_tokens, batch_size)
                         /\ n_cur' = r.n_cur
                         /\ kv_len' = r.n_cur
                         /\ logits' = LogitsAfterPrefill(r)
                         /\ submitted' = r.submitted
                         /\ UNCHANGED sampler
                         /\ IF r.ok
                              THEN /\ n_prompt' = r.n_cur
                                   /\ n_gen' = 0
                                   /\ max_new_tokens' =
                                        GenerationLimit(n_ctx, r.n_cur)
                                   /\ is_prepared' = TRUE
                                   /\ last' = [NoCall EXCEPT !.op = "prepare",
                                                 !.h = h, !.ok = TRUE,
                                                 !.n_tokens = n_tokens,
                                                 !.reset = smpl.built,
                                                 !.ready_during =
                                                    is_prepared_on_entry(is_prepared),
                                                 !.path = "ok"]
                              ELSE /\ is_prepared' = is_prepared_on_entry(is_prepared)
                                   /\ last' = [NoCall EXCEPT !.op = "prepare",
                                                 !.h = h, !.n_tokens = n_tokens,
                                                 !.ready_during =
                                                    is_prepared_on_entry(is_prepared),
                                                 !.path = "decode_failed"]
                                   /\ UNCHANGED <<n_prompt, n_gen, max_new_tokens>>
  /\ UNCHANGED <<hstate, res, uaf, n_ctx, batch_size>>

(***************************************************************************)
(* wrapper_get_next_token.  id is the token llama_sampler_sample returns,  *)
(* chain_ok the result of llama_sampler_chain_init when ensure_sampler     *)
(* constructs; whether llama_decode of the token returns 0 is chosen where *)
(* it is called.                                                           *)
(***************************************************************************)
wrapper_get_next_token(h, temp, top_p, out_buf_size, id, chain_ok) ==
  LET call == [NoCall EXCEPT !.op = "next_token", !.h = h]
      es == ensure_sampler(temp, top_p, chain_ok)
      seen == [call EXCEPT !.temp = temp, !.top_p = top_p,
                           !.built = es.built, !.reset = es.reset]
      sampled == [seen EXCEPT !.id = id, !.out_buf_size = out_buf_size,
                              !.sampled_from = logits]
      n == llama_token_to_piece(id, out_buf_size - 1)
      out_buf == Vocab[id].text
      entry == [token |-> id, pos |-> BatchPos(n_cur), seq_id |-> 0,
                logits |-> TRUE]
  IN
  /\ h \in Ptrs
  /\ h = "handle" => hstate = "live"
  /\ UNCHANGED <<hstate, uaf, n_ctx, batch_size, is_prepared, n_prompt,
                 max_new_tokens>>
  /\ IF h = "null"
       THEN /\ last' = [call EXCEPT !.ret = ErrNullHandle, !.path = "null_handle"]
            /\ submitted' = <<>>
            /\ UNCHANGED <<res, sampler, n_cur, n_gen, engine>>
       ELSE IF ~is_prepared
       THEN /\ last' = [call EXCEPT !.ret = ErrNotPrepared, !.path = "not_prepared"]
            /\ submitted' = <<>>
            /\ UNCHANGED <<res, sampler, n_cur, n_gen, engine>>
       ELSE
         /\ smpl' = es.smpl
         /\ last_temp' = es.last_temp
         /\ last_top_p' = es.last_top_p
         /\ res' = [res EXCEPT !["smpl"] = IF es.smpl.built THEN "live" ELSE "none"]
         /\ IF ~es.ok
              THEN /\ last' = [seen EXCEPT !.ret = ErrSampler, !.path = "sampler_failed"]
                   /\ submitted' = <<>>
                   /\ UNCHANGED <<n_cur, n_gen, engine>>
              ELSE IF ContextFull(n_cur, n_ctx)
              THEN /\ last' = [seen EXCEPT !.ret = 0, !.ok = TRUE, !.path = "context_full"]
                   /\ submitted' = <<>>
                   /\ UNCHANGED <<n_cur, n_gen, engine>>
              ELSE IF LengthLimitReached(n_gen, max_new_tokens)
              THEN /\ last' = [seen EXCEPT !.ret = 0, !.ok = TRUE, !.path = "max_new_tokens"]
                   /\ submitted' = <<>>
                   /\ UNCHANGED <<n_cur, n_gen, engine>>
              ELSE IF n > 0 /\ StopSequence(out_buf)
              THEN /\ last' = [sampled EXCEPT !.ret = 0, !.ok = TRUE,
                                              !.path = "stop_sequence"]
                   /\ submitted' = <<>>
                   /\ UNCHANGED <<n_cur, n_gen, engine>>
              ELSE IF llama_vocab_is_eog(id)
              THEN /\ last' = [sampled EXCEPT !.ret = 0, !.ok = TRUE,
                                              !.path = "eog"]
                   /\ submitted' = <<>>
                   /\ UNCHANGED <<n_cur, n_gen, engine>>
              ELSE /\ submitted' = << <<entry>> >>
                   /\ \E decode_ok \in BOOLEAN :
                      IF ~decode_ok
                        THEN /\ last' = [sampled EXCEPT !.ret = ErrDecode,
                                                        !.path = "decode_failed"]
                             /\ logits' = IF logits = "none" THEN "none"
                                          ELSE "stale"
                             /\ UNCHANGED <<n_cur, n_gen, kv_len>>
                        ELSE /\ n_cur' = NextCur(n_cur)
                             /\ n_gen' = NextGen(n_gen)
                             /\ kv_len' = kv_len + 1
                             /\ logits' = "fresh"
                             /\ last' = [sampled EXCEPT !.ret = n, !.ok = TRUE,
                                                        !.path = "submitted"]

(***************************************************************************)
(* wrapper_free.  On a handle that was already released the reads of its   *)
(* fields are reads of freed memory: each test (smpl, batch.token, ctx,    *)
(* model) may see any value; delete and llama_backend_free are             *)
(* unconditional.                                                          *)
(***************************************************************************)
wrapper_free(h, see_smpl, see_batch, see_ctx, see_model) ==
  /\ h \in Ptrs
  /\ submitted' = <<>>
  /\ IF h = "null"
       THEN /\ last' = [NoCall EXCEPT !.op = "free", !.path = "null_handle"]
            /\ UNCHANGED <<hstate, res, uaf, n_ctx, batch_size, sampler,
                           session, engine>>
       ELSE IF hstate = "live"
       THEN /\ hstate' = "freed"
            /\ n_ctx' = 0
            /\ batch_size' = MaxBatch
            /\ smpl' = NoSampler
            /\ last_temp' = InitParam
            /\ last_top_p' = InitParam
            /\ n_cur' = 0
            /\ is_prepared' = FALSE
            /\ n_prompt' = 0
            /\ n_gen' = 0
            /\ max_new_tokens' = InitMaxNewTokens
            /\ kv_len' = 0
            /\ logits' = "none"
            /\ res' = [r \in Resources |->
                         IF r = "smpl" /\ ~smpl.built THEN res[r]
                         ELSE Release(res[r])]
            /\ last' = [NoCall EXCEPT !.op = "free", !.h = h, !.ok = TRUE,
                                      !.path = "released"]
            /\ UNCHANGED uaf
       ELSE /\ uaf' = TRUE
            /\ res' = [r \in Resources |->
                         IF \/ r = "smpl" /\ ~see_smpl
                            \/ r = "batch" /\ ~see_batch
                            \/ r = "ctx" /\ ~see_ctx
                            \/ r = "model" /\ ~see_model
                         THEN res[r] ELSE Release(res[r])]
            /\ last' = [NoCall EXCEPT !.op = "free", !.h = h, !.ok = TRUE,
                                      !.path = "released_again"]
            /\ UNCHANGED <<hstate, n_ctx, batch_size, sampler, session,
                           engine>>

(***************************************************************************)
(* Specifications.                                                         *)
(***************************************************************************)
\* llama_sampler_chain_init is called, and can fail, only when ensure_sampler
\* constructs
ChainOutcomes(temp, top_p) ==
  IF ~is_prepared \/ (smpl.built /\ temp = last_temp /\ top_p = last_top_p)
    THEN {TRUE}
    ELSE BOOLEAN

\* what the tests of wrapper_free can see in the handle's fields: the fields
\* themselves while the handle is live, anything once it is released
FieldReads == IF hstate = "freed" THEN BOOLEAN ELSE {TRUE}

\* wrapper_get_next_token reads temp, top_p, out_buf_size and the sampled
\* token only past the tests of handle_ptr and is_prepared: for a call that
\* returns at one of those tests one value stands for all
OneOf(S) == {CHOOSE x \in S : TRUE}

ArgsRead(S) == IF is_prepared THEN S ELSE OneOf(S)

NextOver(ctxs, prompts, ids) ==
  \/ \E c \in ctxs, load_ok \in BOOLEAN, ctx_ok \in BOOLEAN :
       wrapper_init(c, load_ok, ctx_ok)
  \/ \E h \in {"null", "handle"}, T \in prompts : wrapper_tokenize(h, T)
  \/ \E T \in OneOf(prompts) : wrapper_prepare_prompt("null", T, 0)
  \/ \E T \in prompts :
       \E fail_chunk \in 0..NumChunks(T, batch_size) :
          wrapper_prepare_prompt("handle", T, fail_chunk)
  \/ \E temp \in OneOf(Temps), top_p \in OneOf(TopPs),
        out_buf_size \in OneOf(BufSizes), id \in OneOf(ids) :
       wrapper_get_next_token("null", temp, top_p, out_buf_size, id, TRUE)
  \/ \E temp \in ArgsRead(Temps), top_p \in ArgsRead(TopPs),
        out_buf_size \in ArgsRead(BufSizes), id \in ArgsRead(ids) :
       \E chain_ok \in ChainOutcomes(temp, top_p) :
          wrapper_get_next_token("handle", temp, top_p, out_buf_size, id,
                                 chain_ok)
  \/ wrapper_free("null", TRUE, TRUE, TRUE, TRUE)
  \/ \E a \in FieldReads, b \in FieldReads, c \in FieldReads, d \in FieldReads :
       wrapper_free("handle", a, b, c, d)

Next == NextOver(CtxSizes, PromptLens, TokenIds)

Spec == Init /\ [][Next]_vars

\* the worked example: context size 256, a prompt of 50 tokens
NextExample == NextOver(ExampleCtxSizes, ExamplePromptLens, ExampleTokenIds)

SpecExample == Init /\ [][NextExample]_vars

\* prompts longer than the batch: pre-fill in two and three chunks, one
\* setting of the sampling parameters
NextChunk ==
  \/ \E c \in ChunkCtxSizes, load_ok \in BOOLEAN, ctx_ok \in BOOLEAN :
       wrapper_init(c, load_ok, ctx_ok)
  \/ \E h \in {"null", "handle"}, T \in ChunkPromptLens : wrapper_tokenize(h, T)
  \/ \E T \in OneOf(ChunkPromptLens) : wrapper_prepare_prompt("null", T, 0)
  \/ \E T \in ChunkPromptLens :
       \E fail_chunk \in 0..NumChunks(T, batch_size) :
          wrapper_prepare_prompt("handle", T, fail_chunk)
  \/ \E temp \in OneOf(Temps), top_p \in OneOf(TopPs), id \in OneOf(ChunkTokenIds) :
       wrapper_get_next_token("null", temp, top_p, MaxBufSize, id, TRUE)
  \/ \E temp \in OneOf(Temps), top_p \in OneOf(TopPs), id \in ArgsRead(ChunkTokenIds) :
       \E chain_ok \in ChainOutcomes(temp, top_p) :
          wrapper_get_next_token("handle", temp, top_p, MaxBufSize, id,
                                 chain_ok)
  \/ wrapper_free("null", TRUE, TRUE, TRUE, TRUE)
  \/ \E a \in FieldReads, b \in FieldReads, c \in FieldReads, d \in FieldReads :
       wrapper_free("handle", a, b, c, d)

SpecChunk == Init /\ [][NextChunk]_vars

(***************************************************************************)
(* Properties.                                                             *)
(***************************************************************************)

\* C1: in every reachable state in which is_prepared is true, n_cur equals
\* n_prompt + n_gen, whatever calls (failing or returning 0) led there.
C1_CursorIsPromptPlusGenerated ==
  is_prepared => n_cur = n_prompt + n_gen

\* a prepared session with a non-empty prompt that has generated tokens and
\* whose latest call failed in llama_decode
C1_Witness ==
  /\ is_prepared
  /\ n_prompt > 0
  /\ n_gen > 1
  /\ last.path = "decode_failed"

\* C2: a prepare on the handle with T < C - 128 tokens whose chunk decodes all
\* succeed returns true and leaves is_prepared = true, n_prompt = n_cur = T,
\* n_gen = 0 and max_new_tokens = max(16, C - T - 128).
C2_PrepareSucceeds ==
  (/\ last.op = "prepare"
   /\ last.h = "handle"
   /\ last.n_tokens < n_ctx - 128
   /\ last.path # "decode_failed")
  => /\ last.ok
     /\ is_prepared
     /\ n_prompt = last.n_tokens
     /\ n_cur = last.n_tokens
     /\ n_gen = 0
     /\ max_new_tokens = IF n_ctx - last.n_tokens - 128 > 16
                           THEN n_ctx - last.n_tokens - 128 ELSE 16

\* a successful re-prepare of a session that had been generating (its sampler
\* exists), with a prompt for which the floor of 16 applies
C2_Witness ==
  /\ last.op = "prepare"
  /\ last.ok
  /\ last.n_tokens > 0
  /\ n_ctx - last.n_tokens - 128 < 16
  /\ max_new_tokens = 16
  /\ smpl.built

\* C3: a prepare on the handle with T >= C - 128 tokens returns false, hands
\* no batch to llama_decode and leaves is_prepared = false, and a
\* wrapper_get_next_token call that follows it returns -2.
C3_TooLongPromptFails ==
  [][ /\ (/\ last'.op = "prepare"
          /\ last'.h = "handle"
          /\ last'.n_tokens >= n_ctx' - 128)
         => (~last'.ok /\ submitted' = <<>> /\ ~is_prepared')
      /\ (/\ last.op = "prepare"
          /\ last.h = "handle"
          /\ last.n_tokens >= n_ctx - 128
          /\ last'.op = "next_token"
          /\ last'.h = "handle")
         => last'.ret = -2 ]_vars

\* a too-long prompt rejected on a session that was prepared and had generated
\* tokens before the call
C3_Witness ==
  /\ last.op = "prepare"
  /\ last.path = "prompt_too_long"
  /\ last.n_tokens >= n_ctx - 128
  /\ n_gen > 0
  /\ smpl.built
  /\ ~is_prepared

\* C4: after a successful prepare, a wrapper_get_next_token call on the handle
\* whose sampler is available, whose sampled token is no stop marker and no
\* end-of-generation token and whose llama_decode succeeds advances n_cur and
\* n_gen by one as long as n_gen < max_new_tokens, and returns 0 without
\* advancing once n_gen has reached max_new_tokens: exactly max_new_tokens
\* calls advance.  For C = 256 and T = 50 max_new_tokens is 78.
C4_LengthGuardTerminates ==
  [][ /\ (/\ last'.op = "prepare"
          /\ last'.ok
          /\ n_ctx' = 256
          /\ last'.n_tokens = 50)
         => max_new_tokens' = 78
      /\ (/\ is_prepared
          /\ last'.op = "next_token"
          /\ last'.h = "handle"
          /\ last'.path \notin {"sampler_failed", "decode_failed",
                                "stop_sequence", "eog"})
         => IF n_gen < max_new_tokens
              THEN /\ n_gen' = n_gen + 1
                   /\ n_cur' = n_cur + 1
                   /\ Len(submitted') = 1
              ELSE /\ last'.ret = 0
                   /\ n_gen' = n_gen
                   /\ n_cur' = n_cur
                   /\ submitted' = <<>> ]_vars

\* the 79th call of the example: 78 tokens generated after a prompt of 50 in a
\* context of 256, and the call returned 0 on the length guard
C4_Witness ==
  /\ n_ctx = 256
  /\ n_prompt = 50
  /\ n_gen = 78
  /\ n_cur = 128
  /\ last.op = "next_token"
  /\ last.ret = 0
  /\ last.path = "max_new_tokens"

\* C5: a wrapper_get_next_token call that returns 0 handed no token to
\* llama_decode and left n_cur and n_gen unchanged, and a call that hands a
\* token to llama_decode and increments n_cur and n_gen returns a positive
\* byte count.
C5_ZeroOnlyOnGuardOrStop ==
  [][ last'.op = "next_token"
      => /\ last'.ret = 0
            => (submitted' = <<>> /\ n_cur' = n_cur /\ n_gen' = n_gen)
         /\ (submitted' # <<>> /\ n_cur' = n_cur + 1 /\ n_gen' = n_gen + 1)
            => last'.ret > 0 ]_vars

\* C6: a negative return value of wrapper_get_next_token is one of -1 (null
\* handle), -2 (not prepared), -3 (sampler construction failed), -4
\* (llama_decode of the sampled token failed), each exactly on its path, and
\* the call left n_cur and n_gen unchanged.
C6_NegativeCodesIdentifyCause ==
  [][ (last'.op = "next_token" /\ last'.ret < 0)
      => /\ last'.ret = -1 <=> last'.path = "null_handle"
         /\ last'.ret = -2 <=> last'.path = "not_prepared"
         /\ last'.ret = -3 <=> last'.path = "sampler_failed"
         /\ last'.ret = -4 <=> last'.path = "decode_failed"
         /\ last'.ret \in {-1, -2, -3, -4}
         /\ n_cur' = n_cur
         /\ n_gen' = n_gen ]_vars

\* the tokens of Vocab whose text contains a turn-boundary marker:
\* "<|im_start|>", "<|im_end|>" and "\nuser\n"
MarkerTokenIds == {3, 5, 6}

C8_RebuildIffChanged ==
  [][ /\ (is_prepared /\ last'.op = "next_token" /\ last'.h = "handle")
         => /\ last'.built <=> (\/ ~smpl.built
                                \/ last'.temp # smpl.temp
                                \/ last'.top_p # smpl.top_p)
            /\ ~last'.built => (last'.reset /\ smpl' = smpl)
            /\ (last'.built /\ last'.path # "sampler_failed")
               => smpl' = [built |-> TRUE, temp |-> last'.temp,
                           top_p |-> last'.top_p]
      /\ last'.op = "prepare" => (~last'.built /\ smpl' = smpl) ]_vars

\* a reconstruction in the middle of a generation: the pipeline existed, the
\* requested pair differed from the one it was built from
C8_Witness ==
  /\ last.op = "next_token"
  /\ last.built
  /\ last.path = "submitted"
  /\ n_gen > 1
  /\ smpl = [built |-> TRUE, temp |-> last.temp, top_p |-> last.top_p]

\* C9: wrapper_free on a null handle, and a second wrapper_free on the same
\* handle, release nothing and do not read the released handle.
C9_SecondFreeIsNoop ==
  [][ (last'.op = "free" /\ (last'.h = "null" \/ hstate = "freed"))
      => /\ res' = res
         /\ ~uaf' ]_vars

\* C10 as stated: is_prepared becomes true only by a successful prepare, is
\* false until the first one, and is false after a failed prepare and after a
\* wrapper_get_next_token call that returns a failure code.
C10_FalseAfterAnyFailure ==
  /\ ~is_prepared
  /\ [][ /\ (is_prepared' /\ ~is_prepared) => (last'.op = "prepare" /\ last'.ok)
         /\ (last'.op = "prepare" /\ last'.h = "handle" /\ ~last'.ok)
            => ~is_prepared'
         /\ (last'.op = "next_token" /\ last'.h = "handle" /\ last'.ret < 0)
            => ~is_prepared' ]_vars

\* C10 amended: is_prepared becomes true only by a successful prepare, is
\* false until the first one, and is false after a failed prepare on the
\* handle; a wrapper_get_next_token call, whatever it returns, leaves
\* is_prepared unchanged.
C10_FalseAfterFailedPrepare ==
  /\ ~is_prepared
  /\ [][ /\ (is_prepared' /\ ~is_prepared) => (last'.op = "prepare" /\ last'.ok)
         /\ (last'.op = "prepare" /\ last'.h = "handle" /\ ~last'.ok)
            => ~is_prepared'
         /\ last'.op = "next_token" => is_prepared' = is_prepared ]_vars

\* a prepare that failed in llama_decode on a session that was prepared and
\* had generated tokens
C10_Witness ==
  /\ last.op = "prepare"
  /\ last.path = "decode_failed"
  /\ ~is_prepared
  /\ n_gen > 0

\* C11: when wrapper_init fails it returns null and has released every
\* resource the call acquired: the backend initialisation on both failure
\* paths, the loaded model when context creation fails.
C11_InitFailureReleasesAll ==
  hstate = "init_failed"
    => /\ last.op = "init" => (last.h = "null" /\ ~last.ok)
       /\ \A r \in Resources : res[r] # "live"

\* C12: when llama_decode fails on a pre-fill chunk, wrapper_prepare_prompt
\* returns false at that chunk (the cache holds the chunks before it and the
\* failing chunk is the last one submitted) and leaves is_prepared false;
\* is_prepared is false while any prepare call decodes its chunks, so a
\* wrapper_get_next_token call that follows a failed prepare is rejected as
\* not prepared and submits nothing.
C12_DecodeFailed == last.op = "prepare" /\ last.path = "decode_failed"

C12_FailedChunkAbortsPrepare ==
  /\ [](/\ (last.op = "prepare" /\ last.h = "handle") => ~last.ready_during
        /\ C12_DecodeFailed
           => /\ ~last.ok
              /\ ~is_prepared
              /\ submitted # <<>>
              /\ Len(submitted) <= NumChunks(last.n_tokens, batch_size)
              /\ n_cur = batch_size * (Len(submitted) - 1)
              /\ kv_len = n_cur
              /\ submitted[Len(submitted)][1].pos = n_cur)
  /\ [][(C12_DecodeFailed /\ last'.op = "next_token" /\ last'.h = "handle")
          => /\ last'.ret = ErrNotPrepared
             /\ submitted' = <<>>
             /\ UNCHANGED <<session, engine>>]_vars

\* llama_decode failed on the second of the three chunks of a 257-token
\* prompt, on a session that was prepared and had generated tokens
C12_Witness ==
  /\ C12_DecodeFailed
  /\ last.n_tokens = 257
  /\ Len(submitted) = 2
  /\ n_cur = 128
  /\ n_gen > 0

\* C13: on an initialized handle n_cur is below the context capacity
\* llama_n_ctx in every reachable state, whatever prepare and next_token
\* calls were made and however they ended.
C13_CursorBelowCapacity == hstate = "live" => n_cur < n_ctx

\* generation ran to the length limit after the longest accepted prompt of
\* three chunks: the largest n_cur of this context
C13_Witness ==
  /\ hstate = "live"
  /\ last.path = "max_new_tokens"
  /\ n_prompt = 257
  /\ n_cur = n_prompt + max_new_tokens

\* C14: wrapper_tokenize is a pure query: whenever it is called it leaves
\* is_prepared, n_cur, n_prompt, n_gen, max_new_tokens, the sampler and its
\* cached parameters as they were, submits nothing to the engine and leaves
\* the engine's cache and logits alone; with a null handle it returns -1.
C14_TokenizeIsPure ==
  [][last'.op = "tokenize"
       => /\ UNCHANGED <<session, sampler, engine>>
          /\ UNCHANGED <<hstate, res, n_ctx, batch_size>>
          /\ submitted' = <<>>
          /\ last'.h = "null" => last'.ret = ErrNullHandle
          /\ last'.h = "handle" => last'.ret = last'.n_tokens]_vars

\* wrapper_tokenize was called on a prepared session that has generated
\* tokens with a constructed sampler
C14_Witness ==
  /\ last.op = "tokenize"
  /\ last.h = "handle"
  /\ is_prepared
  /\ n_gen > 0
  /\ smpl.built
  /\ kv_len > 0

\* C15: between calls n_cur equals the number of tokens the engine's sequence
\* cache holds, after any sequence of prepare and next_token calls, a prepare
\* that clears the cache and then fails included.
C15_CursorEqualsCache == hstate = "live" => n_cur = kv_len

\* C16: whenever wrapper_get_next_token samples, the logits it samples from
\* were produced by the most recent batch submitted since the last cache
\* clear; every prompt that prepare accepts, a prompt of zero tokens
\* included, has had such a batch submitted when prepare returns.
C16_SamplesFreshLogits ==
  /\ (last.op = "next_token" /\ last.sampled_from # "unsampled")
       => last.sampled_from = "fresh"
  /\ (last.op = "prepare" /\ last.ok)
       => (submitted # <<>> /\ logits = "fresh")

\* the entries of a sequence of batches, in the order of submission
RECURSIVE Entries(_)
Entries(batches) ==
  IF batches = <<>> THEN <<>> ELSE Head(batches) \o Entries(Tail(batches))

\* C17: the pre-fill of a prompt of T tokens with batch capacity B submits
\* ceil(T / B) batches; each batch holds between 1 and B entries, the entries
\* of all batches are the prompt tokens in order, each once, at positions
\* 0 .. T-1, and in each batch only the final entry asks for logits; a batch
\* submitted by wrapper_get_next_token holds one entry, the sampled token at
\* position n_cur, asking for logits.
C17_BatchShapes ==
  /\ [](last.op = "prepare" /\ last.h = "handle"
        => LET T == last.n_tokens
               B == batch_size
               all == Entries(submitted)
           IN /\ \A k \in 1..Len(submitted) :
                   /\ Len(submitted[k]) \in 1..B
                   /\ \A j \in 1..Len(submitted[k]) :
                        submitted[k][j].logits <=> j = Len(submitted[k])
              /\ Len(all) <= T
              /\ \A e \in 1..Len(all) :
                   /\ all[e].token = Tokenize(T)[e]
                   /\ all[e].pos = e - 1
                   /\ all[e].seq_id = 0
              /\ last.ok => /\ Len(all) = T
                            /\ Len(submitted) * B >= T
                            /\ (Len(submitted) - 1) * B < T)
  /\ [][(last'.op = "next_token" /\ submitted' # <<>>)
          => /\ Len(submitted') = 1
             /\ Len(submitted'[1]) = 1
             /\ submitted'[1][1].token = last'.id
             /\ submitted'[1][1].pos = n_cur
             /\ submitted'[1][1].seq_id = 0
             /\ submitted'[1][1].logits]_vars

\* a prompt of 257 tokens was pre-filled in three batches of 128, 128 and 1
C17_Witness ==
  /\ last.op = "prepare"
  /\ last.ok
  /\ last.n_tokens = 257
  /\ Len(submitted) = 3
  /\ Len(submitted[3]) = 1

\* C18: when llama_decode of the sampled token fails, wrapper_get_next_token
\* returns -4 and leaves is_prepared true and n_cur, n_gen, n_prompt and
\* max_new_tokens as they were; the wrapper_get_next_token call that follows
\* is not rejected as not prepared, and when it submits a token it submits it
\* at the position of the failed submission.
C18_DecodeFailed == last.op = "next_token" /\ last.path = "decode_failed"

C18_DecodeFailureKeepsSession ==
  [][/\ C18_DecodeFailed'
        => /\ last'.ret = ErrDecode
           /\ is_prepared /\ is_prepared'
           /\ UNCHANGED <<n_cur, n_gen, n_prompt, max_new_tokens>>
           /\ submitted'[1][1].pos = n_cur'
     /\ (C18_DecodeFailed /\ last'.op = "next_token" /\ last'.h = "handle")
        => /\ last'.ret # ErrNotPrepared
           /\ submitted' # <<>> => submitted'[1][1].pos = submitted[1][1].pos]_vars

\* a call that sampled after a failed llama_decode and submitted its token
C18_Witness ==
  /\ last.op = "next_token"
  /\ last.path = "submitted"
  /\ last.sampled_from = "stale"
  /\ n_gen > 1

\* C19: the context guard n_cur >= n_ctx - 4 is never what stops generation:
\* in every prepared state n_cur <= n_prompt + max_new_tokens <= n_ctx - 113,
\* so the length guard n_gen >= max_new_tokens is met first and no call
\* returns at the context guard.
C19_ContextGuardNeverFires ==
  /\ is_prepared => /\ n_cur <= n_prompt + max_new_tokens
                    /\ n_prompt + max_new_tokens <= n_ctx - 113
                    /\ ContextFull(n_cur, n_ctx) => LengthLimitReached(n_gen, max_new_tokens)
  /\ last.path # "context_full"

\* generation stopped at the length guard after the longest accepted prompt:
\* n_prompt + max_new_tokens is n_ctx - 113 and n_cur has reached it
C19_Witness ==
  /\ is_prepared
  /\ last.path = "max_new_tokens"
  /\ n_prompt + max_new_tokens = n_ctx - 113
  /\ n_cur = n_prompt + max_new_tokens

\* n_gen has reached max_new_tokens and no prepare has succeeded since: only
\* a successful prepare (or wrapper_free) writes n_gen or max_new_tokens
C20_LimitReached == hstate = "live" /\ n_gen >= max_new_tokens

\* C20: the length-guard stop is sticky: once n_gen has reached
\* max_new_tokens every later wrapper_get_next_token call on the handle
\* returns 0 without sampling, without submitting and without changing n_cur
\* or n_gen, until a prepare succeeds; a successful prepare resets n_gen to 0
\* and makes generation possible again.
C20_StopIsSticky ==
  [][/\ (C20_LimitReached /\ last'.op = "next_token" /\ last'.h = "handle")
        => /\ last'.ret = 0
           /\ last'.sampled_from = "unsampled"
           /\ submitted' = <<>>
           /\ UNCHANGED <<n_cur, n_gen>>
     /\ (last'.op = "prepare" /\ last'.ok)
        => /\ n_gen' = 0
           /\ ~LengthLimitReached(n_gen', max_new_tokens')
           /\ ~ContextFull(n_cur', n_ctx')]_vars

\* C20 amended: once n_gen has reached max_new_tokens, and until a prepare is
\* called on the handle, every wrapper_get_next_token call on it returns 0 at
\* the length guard, or -3 when it asks for new sampling parameters and the
\* sampler cannot be constructed; after a prepare that failed the calls
\* return -2.  None of these calls samples, submits to the engine or changes
\* n_cur or n_gen, and only a successful prepare (or wrapper_free) ends the
\* stop: it resets n_gen to 0 and makes generation possible again.
C20_StopIsStickyUntilPrepare ==
  [][/\ (C20_LimitReached /\ last'.op = "next_token" /\ last'.h = "handle")
        => /\ last'.ret = IF ~is_prepared THEN ErrNotPrepared
                          ELSE IF last'.path = "sampler_failed" THEN ErrSampler
                          ELSE 0
           /\ last'.path \in {"not_prepared", "sampler_failed", "max_new_tokens"}
           /\ last'.path = "sampler_failed" => last'.built
           /\ last'.sampled_from = "unsampled"
           /\ submitted' = <<>>
           /\ UNCHANGED <<session, engine>>
     /\ (C20_LimitReached /\ is_prepared /\ ~is_prepared')
        => last'.op \in {"prepare", "free"}
     /\ (C20_LimitReached /\ ~C20_LimitReached')
        => (last'.op = "prepare" /\ last'.ok) \/ last'.op = "free"
     /\ (last'.op = "prepare" /\ last'.ok)
        => /\ n_gen' = 0
           /\ ~LengthLimitReached(n_gen', max_new_tokens')
           /\ ~ContextFull(n_cur', n_ctx')]_vars

\* generation had reached the limit, a prepare then failed, and the next
\* wrapper_get_next_token call was rejected as not prepared
C20_Witness ==
  /\ C20_LimitReached
  /\ last.op = "next_token"
  /\ last.path = "not_prepared"
  /\ last.ret = ErrNotPrepared

====
